---- MODULE Spec2Model ----
(***************************************************************************)
(* Model of the prerequisite editor panel (src/ux/prereq_panel.go) and of  *)
(* the body settings dockable: drag of hit locations, undo, reset, load    *)
(* and close (src/ui/widget/infopop.go, second half).                      *)
(*                                                                         *)
(* Prerequisites are heap objects identified by their address; an address  *)
(* is a number in Node, NIL is the nil pointer.  Go slices are modelled as *)
(* sequences; the Go index i is the sequence index i + 1.                  *)
(***************************************************************************)
EXTENDS Integers, Sequences, FiniteSets, TLC

\* ----------------------------------------------------------------- bounds
\* Number of prerequisite objects that can be allocated in one run.
MaxNodes == 4
\* Number of hit locations in the top-level table of the edited body and in
\* the sub-table of its last location.
NumTop == 3
NumSub == 1
\* Number of edits the undo manager holds in one run.
MaxUndo == 2

NIL == 0
Node == 1 .. MaxNodes
\* The list the panel is created for (*p.root): the first object allocated.
root == 1

\* ------------------------------------------------------------- constants
noAndOr == ""

ListPrereqType == "list"
TraitPrereqType == "trait"
AttributePrereqType == "attribute"
ContainedQuantityPrereqType == "contained_quantity"
ContainedWeightPrereqType == "contained_weight"
EquippedEquipmentPrereqType == "equipped_equipment"
SkillPrereqType == "skill"
SpellPrereqType == "spell"

\* model.AllPrereqType: the list type comes first, then the leaf types.
AllPrereqType ==
  << ListPrereqType, TraitPrereqType, AttributePrereqType,
     ContainedQuantityPrereqType, ContainedWeightPrereqType,
     EquippedEquipmentPrereqType, SkillPrereqType, SpellPrereqType >>

\* The items of the type switcher popup: model.AllPrereqType[1:].
SwitcherItems == { AllPrereqType[i] : i \in 2 .. Len(AllPrereqType) }

VARIABLES
  heap,                \* the prerequisite objects: Type, Parent, All, Prereqs
  numNodes,            \* number of objects allocated so far
  andOrMap,            \* p.andOrMap: prerequisite -> text of its label
  lastPrereqTypeUsed,  \* package variable lastPrereqTypeUsed
  kindChanged,         \* history: a type switch has set lastPrereqTypeUsed
  last,                \* history: the callback that ran last and its operands
  bodyHeap,            \* the model.Body objects: address -> table -> Locations
  bodyRef,             \* d.body: the address of the edited body
  undoStack,           \* d.undoMgr: the edits posted, oldest first
  undoIndex,           \* d.undoMgr: the number of edits that are applied
  syncs,               \* history: number of calls of d.sync(), modulo 2
  inDragOver,          \* d.inDragOver
  dragInsert,          \* d.dragInsert
  dragTarget,          \* d.dragTarget: the table whose panel is the target
  dragData,            \* the data of the drag in progress
  promptForSave,       \* d.promptForSave
  closed,              \* the dockable has been closed
  ownerBody,           \* the body type of the owner: entity or global sheet settings
  applies,             \* history: number of calls of d.apply()
  lastDrop             \* history: the handler of the dockable that ran last

prereqVars == << heap, numNodes, andOrMap, lastPrereqTypeUsed, kindChanged, last >>
closeVars == << promptForSave, closed, ownerBody, applies >>
bodyVars == << bodyHeap, bodyRef, undoStack, undoIndex, syncs, inDragOver, dragInsert, dragTarget,
              dragData, lastDrop, closeVars >>
vars == << prereqVars, bodyVars >>

\* ------------------------------------------------------- slices package
\* Variant of slicesInsert: the value is appended instead of inserted at i.
slicesInsertAppend(s, i, v) == Append(s, v)

\* slices.Insert(s, i, v) with a Go index i.
slicesInsert(s, i, v) == SubSeq(s, 1, i) \o << v >> \o SubSeq(s, i + 1, Len(s))

\* Variant of slicesDelete: the last element is dropped whatever i is.
slicesDeleteLast(s, i, j) == SubSeq(s, 1, Len(s) - 1)

\* Variant of slicesDelete: the element at i is overwritten by the last
\* one and the slice is shortened (the order is not kept).
slicesDeleteSwap(s, i, j) ==
  IF i + 1 = Len(s) THEN SubSeq(s, 1, Len(s) - 1)
  ELSE SubSeq([s EXCEPT ![i + 1] = s[Len(s)]], 1, Len(s) - 1)

\* slices.Delete(s, i, j) with Go indices i <= j.
slicesDelete(s, i, j) == SubSeq(s, 1, i) \o SubSeq(s, j + 1, Len(s))

\* slices.Index(s, v): the first Go index of v in s, -1 when absent.
slicesIndex(s, v) ==
  IF \E k \in 1 .. Len(s) : s[k] = v
    THEN (CHOOSE k \in 1 .. Len(s) : s[k] = v /\ \A j \in 1 .. k - 1 : s[j] # v) - 1
    ELSE -1

\* Variant of replaceAt: the first element is replaced whatever i is.
replaceAtFirst(list, i, v) == [list EXCEPT ![1] = v]

\* list[i] = v with a Go index i.
replaceAt(list, i, v) == [list EXCEPT ![i + 1] = v]

\* ------------------------------------------------------------ the model
\* An address that holds no object; also the nil model.Prereq.
NoObject == [Type |-> "", Parent |-> NIL, All |-> FALSE, Prereqs |-> << >>]

\* model.NewPrereqList(): an empty list requiring all of its children.
NewPrereqList == [Type |-> ListPrereqType, Parent |-> NIL, All |-> TRUE, Prereqs |-> << >>]

\* model.New<Kind>Prereq(): a leaf of the given type; its criteria are not modelled.
NewLeafPrereq(prereqType) ==
  [Type |-> prereqType, Parent |-> NIL, All |-> FALSE, Prereqs |-> << >>]

\* pr.ParentList()
ParentList(h, pr) == h[pr].Parent

\* The prerequisites that have a panel: createPrereqListPanel adds a panel
\* for the list and, through addToList, for each of its children in turn.
RECURSIVE PanelsOf(_, _, _)
PanelsOf(h, list, depth) ==
  IF depth = 0 THEN {list}
  ELSE {list} \cup UNION { PanelsOf(h, h[list].Prereqs[k], depth - 1) :
                             k \in 1 .. Len(h[list].Prereqs) }

Displayed(h) == PanelsOf(h, root, MaxNodes)

\* Variant of andOrText: the two connectives are exchanged.
andOrTextSwapped(h, pr) ==
  LET list == ParentList(h, pr) IN
  IF list = NIL \/ Len(h[list].Prereqs) < 2 \/ h[list].Prereqs[1] = pr
    THEN noAndOr
    ELSE IF h[list].All THEN "or" ELSE "and"

\* andOrText(pr)
andOrText(h, pr) ==
  LET list == ParentList(h, pr) IN
  IF list = NIL \/ Len(h[list].Prereqs) < 2 \/ h[list].Prereqs[1] = pr
    THEN noAndOr
    ELSE IF h[list].All THEN "and" ELSE "or"

\* Variant of adjustAndOr: the label keeps its text.
adjustAndOrNever(h, m, data) == m

\* Variant of adjustAndOr: a label that has a text is first cleared.
adjustAndOrClearing(h, m, data) ==
  IF data \in DOMAIN m
    THEN IF andOrText(h, data) # m[data]
           THEN [m EXCEPT ![data] = IF m[data] = noAndOr THEN andOrText(h, data)
                                    ELSE noAndOr]
           ELSE m
    ELSE m

\* p.adjustAndOr(data)
adjustAndOr(h, m, data) ==
  IF data \in DOMAIN m
    THEN IF andOrText(h, data) # m[data]
           THEN [m EXCEPT ![data] = andOrText(h, data)]
           ELSE m
    ELSE m

\* Variant of adjustAndOrForList: no label is adjusted.
adjustAndOrForListSkipped(h, m, list) == m

\* p.adjustAndOrForList(list)
RECURSIVE adjustAndOrFrom(_, _, _, _)
adjustAndOrFrom(h, m, list, k) ==
  IF k > Len(h[list].Prereqs) THEN m
  ELSE adjustAndOrFrom(h, adjustAndOr(h, m, h[list].Prereqs[k]), list, k + 1)

adjustAndOrForList(h, m, list) == adjustAndOrFrom(h, m, list, 1)

\* p.addAndOr(parent, data)
addAndOr(h, m, data) ==
  [n \in DOMAIN m \cup {data} |-> IF n = data THEN andOrText(h, data) ELSE m[n]]

\* Variant of mapDelete: the entry is kept.
mapDeleteKept(m, data) == m

\* delete(p.andOrMap, data)
mapDelete(m, data) == [n \in DOMAIN m \ {data} |-> m[n]]

\* Variant of createPrereqForType: the Parent of the new object is not set.
createPrereqForTypeNoParent(prereqType, parentList) ==
  IF prereqType = ListPrereqType THEN NewPrereqList
  ELSE IF prereqType \in SwitcherItems THEN NewLeafPrereq(prereqType)
  ELSE NoObject

\* p.createPrereqForType(prereqType, parentList): the new object, nil
\* (NoObject) for an unknown type.
createPrereqForType(prereqType, parentList) ==
  CASE prereqType = ListPrereqType -> [NewPrereqList EXCEPT !.Parent = parentList]
    [] prereqType \in { TraitPrereqType, AttributePrereqType,
                        ContainedQuantityPrereqType, ContainedWeightPrereqType,
                        EquippedEquipmentPrereqType, SkillPrereqType,
                        SpellPrereqType } ->
         [NewLeafPrereq(prereqType) EXCEPT !.Parent = parentList]
    [] OTHER -> NoObject

\* createButtonsPanel: the add buttons exist on the panel of a list.
HasAddButtons(h, data) == h[data].Type = ListPrereqType

\* Variant of HasDeleteButton: every panel has a delete button.
HasDeleteButtonAlways(h, data) == TRUE

\* createButtonsPanel: the delete button exists when there is a parent list.
HasDeleteButton(h, data) == ParentList(h, data) # NIL

\* Variant of HasTypeSwitcher: every panel has a type switcher.
HasTypeSwitcherAlways(h, pr) == TRUE

\* create<Kind>PrereqPanel: the panels of the leaf types call
\* addPrereqTypeSwitcher, createPrereqListPanel does not.
HasTypeSwitcher(h, pr) == h[pr].Type \in SwitcherItems

\* Variant of recordTypeUsed: the type used last is left as it was.
recordTypeUsedNot(current, item) == current

\* addPrereqTypeSwitcher: lastPrereqTypeUsed = item
recordTypeUsed(current, item) == item

\* The calls a callback makes, in their order: "mutate" is the change of a
\* Prereqs slice or of a field, the other names are the functions called.
\* adjustAndOrForList ends with p.MarkForLayoutRecursively().
adjustEvents == << "adjustAndOr", "panel.MarkForLayoutRecursively" >>

\* Variant of addEvents: MarkModified is called before the change is made.
addEventsModifiedFirst ==
  << "MarkModified", "mutate", "addToList" >> \o adjustEvents
    \o << "dock.MarkForLayoutRecursively" >>

\* addPrereqButton.ClickCallback and addPrereqListButton.ClickCallback
addEvents ==
  << "mutate", "addToList" >> \o adjustEvents
    \o << "dock.MarkForLayoutRecursively", "MarkModified" >>

\* Variant of deleteEvents: the delete is wrapped in an undo edit.
deleteEventsUndoable ==
  << "prepareUndo", "delete(andOrMap)", "mutate", "RemoveFromParent" >> \o adjustEvents \o
  << "finishAndPostUndo", "dock.MarkForLayoutRecursively", "MarkModified" >>

\* deleteButton.ClickCallback
deleteEvents ==
  << "delete(andOrMap)", "mutate", "RemoveFromParent" >> \o adjustEvents
    \o << "dock.MarkForLayoutRecursively", "MarkModified" >>

\* popup.SelectionChangedCallback of the type switcher
switchEvents ==
  << "lastPrereqTypeUsed", "RemoveFromParent", "mutate", "addToList",
     "dock.MarkForLayoutRecursively", "MarkModified" >>

\* popup.SelectionChangedCallback of the "requires all of" popup: the calls
\* made after the saved callback has stored the selection
selectAllEvents == << "mutate" >> \o adjustEvents

\* The record of a callback in the history variable last.
Ran(op, data, created, index, item, before, events) ==
  [op |-> op, data |-> data, created |-> created, index |-> index,
   item |-> item, before |-> before, events |-> events]

InitPrereqPanel ==
  /\ heap = [n \in Node |-> IF n = root THEN NewPrereqList ELSE NoObject]
  /\ numNodes = 1
  /\ andOrMap = addAndOr(heap, << >>, root)
  /\ lastPrereqTypeUsed = TraitPrereqType
  /\ kindChanged = FALSE
  /\ last = Ran("newPrereqPanel", root, NIL, -1, "", << >>, << >>)

\* addPrereqButton.ClickCallback on the panel of prereqList
AddPrereq(prereqList) ==
  /\ prereqList \in Displayed(heap)
  /\ HasAddButtons(heap, prereqList)
  /\ numNodes < MaxNodes
  /\ LET created == createPrereqForType(lastPrereqTypeUsed, prereqList)
         addr == numNodes + 1
     IN IF created # NoObject
          THEN /\ heap' = [heap EXCEPT
                     ![addr] = created,
                     ![prereqList].Prereqs = slicesInsert(@, 0, addr)]
               /\ numNodes' = addr
               /\ andOrMap' = adjustAndOrForList(heap',
                                addAndOr(heap', andOrMap, addr), prereqList)
               /\ last' = Ran("AddPrereq", prereqList, addr, 0, lastPrereqTypeUsed,
                              heap[prereqList].Prereqs, addEvents)
          ELSE /\ UNCHANGED << heap, numNodes, andOrMap >>
               /\ last' = Ran("AddPrereqFailed", prereqList, NIL, -1, lastPrereqTypeUsed,
                              heap[prereqList].Prereqs, << >>)
  /\ UNCHANGED << lastPrereqTypeUsed, kindChanged >>
  /\ UNCHANGED bodyVars

\* addPrereqListButton.ClickCallback on the panel of prereqList
AddPrereqList(prereqList) ==
  /\ prereqList \in Displayed(heap)
  /\ HasAddButtons(heap, prereqList)
  /\ numNodes < MaxNodes
  /\ LET addr == numNodes + 1
         newList == [NewPrereqList EXCEPT !.Parent = prereqList]
     IN /\ heap' = [heap EXCEPT
              ![addr] = newList,
              ![prereqList].Prereqs = slicesInsert(@, 0, addr)]
        /\ numNodes' = addr
        /\ andOrMap' = adjustAndOrForList(heap',
                         addAndOr(heap', andOrMap, addr), prereqList)
        /\ last' = Ran("AddPrereqList", prereqList, addr, 0, ListPrereqType,
                       heap[prereqList].Prereqs, addEvents)
  /\ UNCHANGED << lastPrereqTypeUsed, kindChanged >>
  /\ UNCHANGED bodyVars

\* deleteButton.ClickCallback on the panel of data
DeletePrereq(data) ==
  /\ data \in Displayed(heap)
  /\ HasDeleteButton(heap, data)
  /\ LET parentList == ParentList(heap, data)
         i == slicesIndex(heap[parentList].Prereqs, data)
     IN IF parentList = NIL
          THEN \* parentList.Prereqs panics: the callback ends after the delete
               /\ heap' = heap
               /\ andOrMap' = mapDelete(andOrMap, data)
          ELSE /\ heap' = IF i # -1
                            THEN [heap EXCEPT ![parentList].Prereqs = slicesDelete(@, i, i + 1)]
                            ELSE heap
               /\ andOrMap' = adjustAndOrForList(heap', mapDelete(andOrMap, data), parentList)
  /\ last' = IF ParentList(heap, data) = NIL
                THEN Ran("DeletePrereq", data, NIL, -1, "", << >>, << "delete(andOrMap)" >>)
                ELSE Ran("DeletePrereq", data, NIL,
                         slicesIndex(heap[ParentList(heap, data)].Prereqs, data), "",
                         heap[ParentList(heap, data)].Prereqs, deleteEvents)
  /\ UNCHANGED << numNodes, lastPrereqTypeUsed, kindChanged >>
  /\ UNCHANGED bodyVars

\* popup.SelectionChangedCallback of the type switcher on the panel of pr
SwitchType(pr, item) ==
  /\ pr \in Displayed(heap)
  /\ HasTypeSwitcher(heap, pr)
  /\ item \in SwitcherItems
  /\ numNodes < MaxNodes
  /\ LET parentList == ParentList(heap, pr)
         newPrereq == createPrereqForType(item, parentList)
         addr == numNodes + 1
     IN IF newPrereq # NoObject
          THEN /\ lastPrereqTypeUsed' = recordTypeUsed(lastPrereqTypeUsed, item)
               /\ kindChanged' = TRUE
               /\ numNodes' = addr
               /\ IF parentList = NIL
                    THEN \* parentList.Prereqs panics: the callback ends here
                         /\ heap' = [heap EXCEPT ![addr] = newPrereq]
                         /\ andOrMap' = andOrMap
                    ELSE LET i == slicesIndex(heap[parentList].Prereqs, pr) IN
                         /\ heap' = [heap EXCEPT
                               ![addr] = newPrereq,
                               ![parentList].Prereqs = replaceAt(@, i, addr)]
                         /\ andOrMap' = addAndOr(heap', andOrMap, addr)
               /\ last' = IF parentList = NIL
                             THEN Ran("SwitchType", pr, addr, -1, item, << >>,
                                      << "lastPrereqTypeUsed", "RemoveFromParent" >>)
                             ELSE Ran("SwitchType", pr, addr,
                                      slicesIndex(heap[parentList].Prereqs, pr), item,
                                      heap[parentList].Prereqs, switchEvents)
          ELSE /\ UNCHANGED << heap, numNodes, andOrMap, lastPrereqTypeUsed, kindChanged >>
               /\ last' = Ran("SwitchTypeFailed", pr, NIL, -1, item, << >>, << >>)
  /\ UNCHANGED bodyVars

\* popup.SelectionChangedCallback of the "requires all of" popup on the
\* panel of list: the saved callback stores the selection in list.All
SelectAll(list, all) ==
  /\ list \in Displayed(heap)
  /\ heap[list].Type = ListPrereqType
  /\ heap' = [heap EXCEPT ![list].All = all]
  /\ andOrMap' = adjustAndOrForList(heap', andOrMap, list)
  /\ last' = Ran("SelectAll", list, NIL, -1, "", heap[list].Prereqs, selectAllEvents)
  /\ UNCHANGED << numNodes, lastPrereqTypeUsed, kindChanged >>
  /\ UNCHANGED bodyVars

Next ==
  \/ \E prereqList \in Node : AddPrereq(prereqList)
  \/ \E prereqList \in Node : AddPrereqList(prereqList)
  \/ \E data \in Node : DeletePrereq(data)
  \/ \E pr \in Node, item \in SwitcherItems : SwitchType(pr, item)
  \/ \E list \in Node, all \in BOOLEAN : SelectAll(list, all)

\* ------------------------------------------------- body settings dockable
\* Hit locations are identified by their number.  A table is identified by
\* its owner: TopTable is the table of the body itself, table l is the
\* sub-table of hit location l.
Loc == 1 .. (NumTop + NumSub)
TopTable == 0
Table == {TopTable} \cup Loc
NoTable == -1
NoData == 0
OtherData == -1

\* loc.OwningTable()
OwningTable(b, loc) == CHOOSE t \in Table : \E k \in 1 .. Len(b[t]) : b[t][k] = loc

\* The hit locations that have a hitLocationSettingsPanel.
ShownLocs(b) == UNION { { b[t][k] : k \in 1 .. Len(b[t]) } : t \in Table }

\* Variant of dropInsertIndex: the index is moved back whatever i is.
dropInsertIndexBack(i, insert) == IF insert > 0 THEN insert - 1 ELSE 0

\* dataDragDrop: the index the dragged location is inserted at, once it
\* has been deleted at index i.
dropInsertIndex(i, insert) == IF i < insert THEN insert - 1 ELSE insert

\* The addresses of model.Body objects.  Between two handlers the objects
\* in use are kept at the addresses 0 .. 2 * MaxUndo (addresses cannot be
\* observed, so the objects are renumbered in the order d.body, then the
\* BeforeData and AfterData of each edit); the three addresses above are
\* where a handler allocates.
BodyId == 0 .. (2 * MaxUndo + 3)
NewBefore == 2 * MaxUndo + 1
NewAfter == 2 * MaxUndo + 2
NewBody == 2 * MaxUndo + 3

\* An address that holds no body.
NoBody == [t \in Table |-> << >>]

\* The edited body
body == bodyHeap[bodyRef]

\* The body the dockable is opened on: NumTop locations, the last of which
\* has a sub-table of NumSub locations.
OpenedBody ==
  [t \in Table |->
     IF t = TopTable THEN [k \in 1 .. NumTop |-> k]
     ELSE IF t = NumTop THEN [k \in 1 .. NumSub |-> NumTop + k]
     ELSE << >>]

\* The body reset() installs: the sheet body of the global settings, or
\* model.FactoryBody().  It has the top-level locations in the opposite
\* order.
ResetBody ==
  [OpenedBody EXCEPT ![TopTable] = [k \in 1 .. NumTop |-> NumTop + 1 - k]]

\* The files load() can be given and model.NewBodyFromFile(fileSystem,
\* filePath): the body read from GoodFile has the top-level locations
\* rotated by one.
BadFile == 0
GoodFile == 1
Files == { BadFile, GoodFile }

NewBodyFromFile(file) ==
  IF file = GoodFile
    THEN [err |-> FALSE,
          bodyType |-> [OpenedBody EXCEPT ![TopTable] =
                          [k \in 1 .. NumTop |-> (k % NumTop) + 1]]]
    ELSE [err |-> TRUE, bodyType |-> NoBody]

\* b.Clone(entity, nil): a new body, at address new, equal to the one at src
Clone(h, src, new) == [h EXCEPT ![new] = h[src]]

\* d.prepareUndo(title): the edit, with a clone of d.body as BeforeData
prepareUndo(h, ref) ==
  [heap |-> Clone(h, ref, NewBefore),
   undo |-> [BeforeData |-> NewBefore, AfterData |-> NewBefore]]

\* UndoManager.Add(edit): the edits that are not applied are dropped and the
\* edit is added as the last applied one.
undoManagerAdd(stack, index, undo) == Append(SubSeq(stack, 1, index), undo)

\* Variant of finishAndPostUndo: AfterData is left as prepareUndo set it.
finishAndPostUndoStale(h, ref, stack, index, undo) ==
  [heap |-> h, stack |-> undoManagerAdd(stack, index, undo)]

\* d.finishAndPostUndo(undo): AfterData becomes a clone of d.body and the
\* edit is added to the undo manager
finishAndPostUndo(h, ref, stack, index, undo) ==
  [heap |-> Clone(h, ref, NewAfter),
   stack |-> undoManagerAdd(stack, index, [undo EXCEPT !.AfterData = NewAfter])]

\* Variant of applyBodyType: d.body becomes bodyType itself.
applyBodyTypeShared(h, bodyType) == [heap |-> h, ref |-> bodyType]

\* d.applyBodyType(bodyType): d.body becomes a clone of bodyType
applyBodyType(h, bodyType) == [heap |-> Clone(h, bodyType, NewBody), ref |-> NewBody]

\* The addresses d.body and the edits of the undo manager hold, in that order.
Refs(ref, stack) ==
  << ref >> \o [k \in 1 .. 2 * Len(stack) |->
                  IF k % 2 = 1 THEN stack[(k + 1) \div 2].BeforeData
                  ELSE stack[k \div 2].AfterData]

\* The number of different addresses before the first occurrence of id in s.
Rank(s, id) ==
  LET first == CHOOSE k \in 1 .. Len(s) : s[k] = id /\ \A j \in 1 .. k - 1 : s[j] # id
  IN Cardinality({ s[j] : j \in 1 .. first - 1 })

\* The state a handler leaves: the objects that can still be reached,
\* renumbered; every other address holds no body.
Collected(h, ref, stack) ==
  LET s == Refs(ref, stack)
      held == { s[k] : k \in 1 .. Len(s) }
  IN [bodyHeap |-> [a \in BodyId |->
                      IF \E id \in held : Rank(s, id) = a
                        THEN h[CHOOSE id \in held : Rank(s, id) = a]
                        ELSE NoBody],
      bodyRef |-> Rank(s, ref),
      undoStack |-> [k \in 1 .. Len(stack) |->
                       [BeforeData |-> Rank(s, stack[k].BeforeData),
                        AfterData |-> Rank(s, stack[k].AfterData)]]]

\* The answers of unison.YesNoCancelDialog.
ModalResponseDiscard == "Discard"
ModalResponseOK == "OK"
ModalResponseCancel == "Cancel"
ModalResponses == { ModalResponseDiscard, ModalResponseOK, ModalResponseCancel }

\* b.CRC64(): a checksum of the body, here the number whose digits are the
\* locations of the tables in turn, so that the bodies of the model, which
\* differ in the order of the locations only, differ in their checksum.
RECURSIVE DigitsOf(_)
DigitsOf(s) ==
  IF s = << >> THEN 0
  ELSE DigitsOf(SubSeq(s, 1, Len(s) - 1)) * (NumTop + NumSub + 1) + s[Len(s)]

RECURSIVE LocationsFrom(_, _)
LocationsFrom(b, t) ==
  IF t > NumTop + NumSub THEN << >> ELSE b[t] \o LocationsFrom(b, t + 1)

CRC64(b) == DigitsOf(LocationsFrom(b, TopTable))

\* d.originalCRC
originalCRC == CRC64(OpenedBody)

\* d.modified(), which also enables the Apply and the Discard button
modified(b) == originalCRC # CRC64(b)

\* d.willClose(), response being the answer to the dialog if it is shown:
\* whether the dialog is shown, d.apply() is called and the close goes on.
willClose(prompt, b, response) ==
  IF prompt /\ originalCRC # CRC64(b)
    THEN [prompted |-> TRUE,
          apply |-> response = ModalResponseOK,
          close |-> response # ModalResponseCancel]
    ELSE [prompted |-> FALSE, apply |-> FALSE, close |-> TRUE]

\* Variant of clearPromptForSave: promptForSave is left as it is.
clearPromptForSaveNot(prompt) == prompt

\* d.promptForSave = false in the callbacks of the two buttons
clearPromptForSave(prompt) == FALSE

\* The record of a handler that attempted to close the dockable.
RanClose(op, prompted, response) ==
  [op |-> op, applied |-> FALSE, loc |-> NoData, table |-> NoTable, i |-> -1,
   insert |-> -1, prompted |-> prompted,
   response |-> IF prompted THEN response ELSE ""]

\* The record of the handler that ran last.
RanBody(op, applied, loc, table, i, insert) ==
  [op |-> op, applied |-> applied, loc |-> loc, table |-> table, i |-> i, insert |-> insert]

InitBodySettings ==
  /\ bodyHeap = [a \in BodyId |-> IF a = 0 THEN OpenedBody ELSE NoBody]
  /\ bodyRef = 0
  /\ undoStack = << >>
  /\ undoIndex = 0
  /\ syncs = 0
  /\ inDragOver = FALSE
  /\ dragInsert = 0
  /\ dragTarget = NoTable
  /\ dragData = NoData
  /\ lastDrop = RanBody("ShowBodySettings", FALSE, NoData, NoTable, -1, -1)
  /\ promptForSave = TRUE
  /\ closed = FALSE
  /\ ownerBody = OpenedBody
  /\ applies = 0

Init == InitPrereqPanel /\ InitBodySettings

\* A drag enters the content panel: a hit location panel of this dockable
\* or data of another kind.
BeginDrag(data) ==
  /\ ~closed
  /\ dragData = NoData
  /\ data \in ShownLocs(body) \cup {OtherData}
  /\ dragData' = data
  /\ lastDrop' = RanBody("BeginDrag", FALSE, data, NoTable, -1, -1)
  /\ UNCHANGED << bodyHeap, bodyRef, undoStack, undoIndex, syncs, inDragOver,
                  dragInsert, dragTarget >>
  /\ UNCHANGED closeVars
  /\ UNCHANGED prereqVars

\* d.dataDragOver(where, data): where lies in the child at Go index hit of
\* the parent of the dragged panel (hit = -1: in none of them), in its
\* lower half when lower is true.
dataDragOver(hit, lower) ==
  /\ ~closed
  /\ dragData # NoData
  /\ IF dragData # OtherData
       THEN LET parent == OwningTable(body, dragData) IN
            /\ hit \in -1 .. Len(body[parent]) - 1
            /\ IF hit # -1
                 THEN /\ dragTarget' = parent
                      /\ dragInsert' = IF lower THEN hit + 1 ELSE hit
                      /\ inDragOver' = TRUE
                 ELSE /\ dragTarget' = NoTable
                      /\ dragInsert' = -1
                      /\ inDragOver' = FALSE
       ELSE /\ hit = -1
            /\ dragTarget' = NoTable
            /\ dragInsert' = -1
            /\ inDragOver' = FALSE
  /\ UNCHANGED << bodyHeap, bodyRef, undoStack, undoIndex, syncs, dragData, lastDrop >>
  /\ UNCHANGED closeVars
  /\ UNCHANGED prereqVars

\* Variant of dataDragExit: dragInsert is left as it is.
dataDragExitKeepsInsert ==
  /\ ~closed
  /\ dragData # NoData
  /\ inDragOver' = FALSE
  /\ dragTarget' = NoTable
  /\ UNCHANGED << bodyHeap, bodyRef, undoStack, undoIndex, syncs, dragInsert, dragData,
                  lastDrop >>
  /\ UNCHANGED closeVars
  /\ UNCHANGED prereqVars

\* d.dataDragExit()
dataDragExit ==
  /\ ~closed
  /\ dragData # NoData
  /\ inDragOver' = FALSE
  /\ dragInsert' = -1
  /\ dragTarget' = NoTable
  /\ UNCHANGED << bodyHeap, bodyRef, undoStack, undoIndex, syncs, dragData, lastDrop >>
  /\ UNCHANGED closeVars
  /\ UNCHANGED prereqVars

\* d.dataDragDrop(where, data), which ends with d.dataDragExit().  The
\* Locations of the owning table of d.body are assigned in place.
dataDragDrop ==
  /\ ~closed
  /\ dragData # NoData
  /\ IF inDragOver /\ dragInsert # -1 /\ dragData # OtherData
       THEN LET prepared == prepareUndo(bodyHeap, bodyRef)
                table == OwningTable(body, dragData)
                i == slicesIndex(body[table], dragData)
                deleted == slicesDelete(body[table], i, i + 1)
                insert == dropInsertIndex(i, dragInsert)
                moved == [prepared.heap EXCEPT
                            ![bodyRef][table] = slicesInsert(deleted, insert, dragData)]
                posted == finishAndPostUndo(moved, bodyRef, undoStack, undoIndex,
                                            prepared.undo)
                left == Collected(posted.heap, bodyRef, posted.stack)
            IN /\ undoIndex < MaxUndo
               /\ bodyHeap' = left.bodyHeap
               /\ bodyRef' = left.bodyRef
               /\ undoStack' = left.undoStack
               /\ undoIndex' = undoIndex + 1
               /\ syncs' = (syncs + 1) % 2
               /\ lastDrop' = RanBody("dataDragDrop", TRUE, dragData, table, i, dragInsert)
       ELSE /\ UNCHANGED << bodyHeap, bodyRef, undoStack, undoIndex, syncs >>
            /\ lastDrop' = RanBody("dataDragDrop", FALSE, dragData, NoTable, -1, dragInsert)
  /\ inDragOver' = FALSE
  /\ dragInsert' = -1
  /\ dragTarget' = NoTable
  /\ dragData' = NoData
  /\ UNCHANGED closeVars
  /\ UNCHANGED prereqVars

\* drawOver: the Go index of the child of the drag target whose frame gives
\* the height of the insertion line.
drawOverChild(children, insert) ==
  IF insert < Len(children) THEN insert ELSE Len(children) - 1

\* d.drawOver(gc, rect): it draws and changes nothing, unless the drag
\* target is nil or the child index is out of range, where it panics.
drawOver ==
  /\ ~closed
  /\ IF inDragOver /\ dragInsert # -1
       THEN IF /\ dragTarget # NoTable
               /\ drawOverChild(body[dragTarget], dragInsert) \in
                    0 .. Len(body[dragTarget]) - 1
              THEN UNCHANGED lastDrop
              ELSE lastDrop' = RanBody("drawOver panic", FALSE, dragData, dragTarget,
                                       -1, dragInsert)
       ELSE UNCHANGED lastDrop
  /\ UNCHANGED << bodyHeap, bodyRef, undoStack, undoIndex, syncs, inDragOver,
                  dragInsert, dragTarget, dragData >>
  /\ UNCHANGED closeVars
  /\ UNCHANGED prereqVars

\* d.reset(), run while no drag is in progress
reset ==
  /\ ~closed
  /\ dragData = NoData
  /\ undoIndex < MaxUndo
  /\ LET prepared == prepareUndo(bodyHeap, bodyRef)
         installed == [prepared.heap EXCEPT ![NewBody] = ResetBody]
         posted == finishAndPostUndo(installed, NewBody, undoStack, undoIndex,
                                     prepared.undo)
         left == Collected(posted.heap, NewBody, posted.stack)
     IN /\ bodyHeap' = left.bodyHeap
        /\ bodyRef' = left.bodyRef
        /\ undoStack' = left.undoStack
  /\ undoIndex' = undoIndex + 1
  /\ syncs' = (syncs + 1) % 2
  /\ lastDrop' = RanBody("reset", FALSE, NoData, NoTable, -1, -1)
  /\ UNCHANGED << inDragOver, dragInsert, dragTarget, dragData >>
  /\ UNCHANGED closeVars
  /\ UNCHANGED prereqVars

\* d.load(fileSystem, filePath), run while no drag is in progress
load(file) ==
  /\ ~closed
  /\ dragData = NoData
  /\ LET read == NewBodyFromFile(file) IN
     IF read.err
       THEN /\ lastDrop' = RanBody("load", FALSE, NoData, NoTable, -1, -1)
            /\ UNCHANGED << bodyHeap, bodyRef, undoStack, undoIndex, syncs >>
       ELSE LET prepared == prepareUndo(bodyHeap, bodyRef)
                installed == [prepared.heap EXCEPT ![NewBody] = read.bodyType]
                posted == finishAndPostUndo(installed, NewBody, undoStack, undoIndex,
                                            prepared.undo)
                left == Collected(posted.heap, NewBody, posted.stack)
            IN /\ undoIndex < MaxUndo
               /\ bodyHeap' = left.bodyHeap
               /\ bodyRef' = left.bodyRef
               /\ undoStack' = left.undoStack
               /\ undoIndex' = undoIndex + 1
               /\ syncs' = (syncs + 1) % 2
               /\ lastDrop' = RanBody("load", TRUE, NoData, NoTable, -1, -1)
  /\ UNCHANGED << inDragOver, dragInsert, dragTarget, dragData >>
  /\ UNCHANGED closeVars
  /\ UNCHANGED prereqVars

\* UndoManager.Undo(), run while no drag is in progress: the UndoFunc of the
\* last applied edit is called
undo ==
  /\ ~closed
  /\ dragData = NoData
  /\ undoIndex > 0
  /\ LET applied == applyBodyType(bodyHeap, undoStack[undoIndex].BeforeData)
         left == Collected(applied.heap, applied.ref, undoStack)
     IN /\ bodyHeap' = left.bodyHeap
        /\ bodyRef' = left.bodyRef
        /\ undoStack' = left.undoStack
  /\ undoIndex' = undoIndex - 1
  /\ syncs' = (syncs + 1) % 2
  /\ lastDrop' = RanBody("undo", FALSE, NoData, NoTable, -1, -1)
  /\ UNCHANGED << inDragOver, dragInsert, dragTarget, dragData >>
  /\ UNCHANGED closeVars
  /\ UNCHANGED prereqVars

\* UndoManager.Redo(), run while no drag is in progress: the RedoFunc of the
\* first edit that is not applied is called
redo ==
  /\ ~closed
  /\ dragData = NoData
  /\ undoIndex < Len(undoStack)
  /\ LET applied == applyBodyType(bodyHeap, undoStack[undoIndex + 1].AfterData)
         left == Collected(applied.heap, applied.ref, undoStack)
     IN /\ bodyHeap' = left.bodyHeap
        /\ bodyRef' = left.bodyRef
        /\ undoStack' = left.undoStack
  /\ undoIndex' = undoIndex + 1
  /\ syncs' = (syncs + 1) % 2
  /\ lastDrop' = RanBody("redo", FALSE, NoData, NoTable, -1, -1)
  /\ UNCHANGED << inDragOver, dragInsert, dragTarget, dragData >>
  /\ UNCHANGED closeVars
  /\ UNCHANGED prereqVars

\* d.AttemptClose(), when the user closes the tab while no drag is in
\* progress: the dockable closes unless willClose returns false.
AttemptClose(response) ==
  /\ ~closed
  /\ dragData = NoData
  /\ LET will == willClose(promptForSave, body, response) IN
     /\ applies' = applies + (IF will.apply THEN 1 ELSE 0)
     /\ ownerBody' = IF will.apply THEN body ELSE ownerBody
     /\ closed' = will.close
     /\ lastDrop' = RanClose("AttemptClose", will.prompted, response)
  /\ UNCHANGED << bodyHeap, bodyRef, undoStack, undoIndex, syncs, inDragOver,
                  dragInsert, dragTarget, dragData, promptForSave >>
  /\ UNCHANGED prereqVars

\* applyButton.ClickCallback; the button is enabled when modified() says so
applyButtonClick(response) ==
  /\ ~closed
  /\ dragData = NoData
  /\ modified(body)
  /\ LET prompt == clearPromptForSave(promptForSave)
         will == willClose(prompt, body, response)
     IN /\ applies' = applies + 1 + (IF will.apply THEN 1 ELSE 0)
        /\ ownerBody' = body
        /\ promptForSave' = prompt
        /\ closed' = will.close
        /\ lastDrop' = RanClose("applyButton", will.prompted, response)
  /\ UNCHANGED << bodyHeap, bodyRef, undoStack, undoIndex, syncs, inDragOver,
                  dragInsert, dragTarget, dragData >>
  /\ UNCHANGED prereqVars

\* cancelButton.ClickCallback; the button is enabled when modified() says so
cancelButtonClick(response) ==
  /\ ~closed
  /\ dragData = NoData
  /\ modified(body)
  /\ LET prompt == clearPromptForSave(promptForSave)
         will == willClose(prompt, body, response)
     IN /\ applies' = applies + (IF will.apply THEN 1 ELSE 0)
        /\ ownerBody' = IF will.apply THEN body ELSE ownerBody
        /\ promptForSave' = prompt
        /\ closed' = will.close
        /\ lastDrop' = RanClose("cancelButton", will.prompted, response)
  /\ UNCHANGED << bodyHeap, bodyRef, undoStack, undoIndex, syncs, inDragOver,
                  dragInsert, dragTarget, dragData >>
  /\ UNCHANGED prereqVars

NextBody ==
  \/ \E data \in Loc \cup {OtherData} : BeginDrag(data)
  \/ \E hit \in -1 .. (NumTop + NumSub), lower \in BOOLEAN : dataDragOver(hit, lower)
  \/ dataDragExit
  \/ dataDragDrop
  \/ drawOver
  \/ reset
  \/ \E file \in Files : load(file)
  \/ undo
  \/ redo
  \/ \E response \in ModalResponses : AttemptClose(response)
  \/ \E response \in ModalResponses : applyButtonClick(response)
  \/ \E response \in ModalResponses : cancelButtonClick(response)

Spec == Init /\ [][Next]_vars

SpecBody == Init /\ [][NextBody]_vars

\* ================================================================ claims
\* The objects allocated so far.
Allocated == 1 .. numNodes

\* The lists among the prerequisites that have a panel.
DisplayedLists == { n \in Displayed(heap) : heap[n].Type = ListPrereqType }

\* The sequence index of v in s (0 when absent).
PosIn(s, v) == IF \E k \in 1 .. Len(s) : s[k] = v
                 THEN CHOOSE k \in 1 .. Len(s) : s[k] = v
                 ELSE 0

\* C1: the connective computed for a prerequisite is none when it has no
\* parent list, when its parent list has fewer than 2 children or when it is
\* the first child; for every other child of a list it is "and" when the
\* list's All flag is set and "or" when it is not.
C1_AndOrText ==
  /\ \A n \in Allocated : heap[n].Parent = NIL => andOrText(heap, n) = ""
  /\ \A list \in DisplayedLists :
       \A k \in 1 .. Len(heap[list].Prereqs) :
         andOrText(heap, heap[list].Prereqs[k]) =
           IF k = 1 \/ Len(heap[list].Prereqs) < 2 THEN ""
           ELSE IF heap[list].All THEN "and" ELSE "or"

\* C1 witness: a list with three children that requires only one of them.
C1_Witness ==
  \E list \in DisplayedLists :
    /\ Len(heap[list].Prereqs) = 3
    /\ ~heap[list].All
    /\ andOrText(heap, heap[list].Prereqs[3]) = "or"

\* C2: after any sequence of callbacks, the label text held in andOrMap for
\* every prerequisite of the tree is the connective computed for it on the
\* current tree.
C2_LabelsCurrent ==
  \A n \in Displayed(heap) :
    n \in DOMAIN andOrMap /\ andOrMap[n] = andOrText(heap, n)

\* C2 witness: a delete has left a list with two children, the second one
\* labelled "or".
C2_Witness ==
  /\ last.op = "DeletePrereq"
  /\ \E list \in DisplayedLists :
       /\ Len(heap[list].Prereqs) = 2
       /\ andOrMap[heap[list].Prereqs[2]] = "or"

\* C3: the root list has no parent list and is never the operand of a
\* delete; it stays a list of the tree with its label entry, whatever the
\* callbacks that ran.
C3_RootNeverDeleted ==
  /\ heap[root].Parent = NIL
  /\ heap[root].Type = ListPrereqType
  /\ root \in DOMAIN andOrMap
  /\ \A n \in Allocated : \A k \in 1 .. Len(heap[n].Prereqs) : heap[n].Prereqs[k] # root
  /\ last.op = "DeletePrereq" => last.data # root

\* C3 witness: the last child of the root has been deleted; the root is left.
C3_Witness ==
  /\ last.op = "DeletePrereq"
  /\ heap[last.data].Parent = root
  /\ heap[root].Prereqs = << >>

\* C4: a delete of a prerequisite with a parent list removes exactly that
\* prerequisite from the parent's Prereqs (one element less, the others in
\* their order) and removes its andOrMap entry.
C4_DeleteRemovesOne ==
  [][ last'.op = "DeletePrereq" =>
        LET data == last'.data
            parentList == heap[data].Parent
            old == heap[parentList].Prereqs
            new == heap'[parentList].Prereqs
            pos == PosIn(old, data)
        IN /\ parentList # NIL
           /\ pos # 0
           /\ Len(new) = Len(old) - 1
           /\ \A k \in 1 .. Len(new) : new[k] = IF k < pos THEN old[k] ELSE old[k + 1]
           /\ \A k \in 1 .. Len(new) : new[k] # data
           /\ data \in DOMAIN andOrMap
           /\ data \notin DOMAIN andOrMap'
           /\ DOMAIN andOrMap' = DOMAIN andOrMap \ {data}
    ]_vars

\* C4 witness: the middle one of three children has been deleted.
C4_Witness ==
  /\ last.op = "DeletePrereq"
  /\ Len(heap[heap[last.data].Parent].Prereqs) = 2
  /\ last.index = 1

\* C5: the add button of a list puts a new prerequisite of the type used
\* last (a trait when no type switch has happened) at position 0 of the
\* list, with the list as its parent, and moves every previous child one
\* position further.
C5_AddAtFront ==
  [][ last'.op = "AddPrereq" =>
        LET list == last'.data
            created == last'.created
            old == heap[list].Prereqs
            new == heap'[list].Prereqs
        IN /\ created \notin Allocated
           /\ Len(new) = Len(old) + 1
           /\ new[1] = created
           /\ \A k \in 1 .. Len(old) : new[k + 1] = old[k]
           /\ heap'[created].Type = lastPrereqTypeUsed
           /\ ~kindChanged => heap'[created].Type = TraitPrereqType
           /\ heap'[created].Parent = list
    ]_vars

\* C5 witness: a second prerequisite has been added in front of a first
\* one, after a type switch: it is of the type switched to.
C5_Witness ==
  /\ last.op = "AddPrereq"
  /\ Len(heap[last.data].Prereqs) = 2
  /\ heap[last.data].Prereqs[1] = last.created
  /\ kindChanged
  /\ heap[last.created].Type = SkillPrereqType

\* C6: a type switch on a prerequisite with a parent list puts a new
\* prerequisite of the selected type at the index of the old one: the
\* parent's Prereqs keeps its length, every other child keeps its index and
\* the parent of the new prerequisite is that list.
C6_SwitchInPlace ==
  [][ last'.op = "SwitchType" =>
        LET pr == last'.data
            created == last'.created
            parentList == heap[pr].Parent
            old == heap[parentList].Prereqs
            new == heap'[parentList].Prereqs
        IN /\ parentList # NIL
           /\ PosIn(old, pr) # 0
           /\ Len(new) = Len(old)
           /\ \A k \in 1 .. Len(old) :
                new[k] = IF k = PosIn(old, pr) THEN created ELSE old[k]
           /\ created \notin Allocated
           /\ heap'[created].Parent = parentList
           /\ heap'[created].Type = lastPrereqTypeUsed'
           /\ heap'[created].Type \in SwitcherItems
    ]_vars

\* C6 witness: the second of two children has been switched to a spell.
C6_Witness ==
  /\ last.op = "SwitchType"
  /\ last.index = 1
  /\ heap[heap[last.created].Parent].Prereqs[2] = last.created
  /\ heap[last.created].Type = SpellPrereqType

\* C7: the root is a list in every reachable state and a type switch is
\* never applied to it nor to any prerequisite without a parent list: only
\* the panels of leaves, which have a parent list, have a type switcher.
C7_RootStaysList ==
  /\ heap[root].Type = ListPrereqType
  /\ \A n \in Displayed(heap) : heap[n].Type # ListPrereqType => heap[n].Parent # NIL
  /\ last.op \in {"SwitchType", "SwitchTypeFailed"} =>
       /\ last.data # root
       /\ heap[last.data].Parent # NIL
       /\ heap[last.data].Type # ListPrereqType

\* C7 witness: a type switch has been applied to the only child of the root.
C7_Witness ==
  /\ last.op = "SwitchType"
  /\ heap[root].Prereqs = << last.created >>
  /\ heap[root].Type = ListPrereqType

\* C10: every prerequisite found in the Prereqs of a list has that list as
\* its parent, occurs in the Prereqs of no other list and only once in it,
\* and the root has no parent.
C10_TreeShaped ==
  /\ heap[root].Parent = NIL
  /\ \A list \in Allocated :
       \A k \in 1 .. Len(heap[list].Prereqs) :
         LET child == heap[list].Prereqs[k] IN
         /\ heap[list].Type = ListPrereqType
         /\ child \in Allocated
         /\ heap[child].Parent = list
         /\ \A j \in 1 .. Len(heap[list].Prereqs) : j # k => heap[list].Prereqs[j] # child
         /\ \A other \in Allocated \ {list} :
              \A j \in 1 .. Len(heap[other].Prereqs) : heap[other].Prereqs[j] # child

\* C10 witness: a nested list with a child next to a leaf of the root.
C10_Witness ==
  \E list \in DisplayedLists :
    /\ heap[list].Parent = root
    /\ Len(heap[list].Prereqs) = 1
    /\ Len(heap[root].Prereqs) = 2

\* A step of dataDragDrop that moved the dragged hit location.
DropApplied == dragData # NoData /\ dragData' = NoData /\ lastDrop'.applied

\* C9 as stated: a drop leaves the dragged hit location at the index
\* dragInsert of the target table, or at the end of the table when
\* dragInsert is beyond it.
C9_MoveLandsAtNewPosition ==
  [][ DropApplied =>
        LET table == lastDrop'.table
            lenRemoved == Len(body[table]) - 1
        IN slicesIndex(body'[table], dragData) =
             IF dragInsert > lenRemoved THEN lenRemoved ELSE dragInsert
    ]_vars

\* C9 amended: a drop removes the dragged hit location from its owning
\* table and puts it back into the same table; with i its index before the
\* drop and dragInsert in 0 .. len, it ends at index dragInsert when
\* i >= dragInsert and at index dragInsert - 1 when i < dragInsert.  The
\* table keeps its length and no other table changes.
C9_DropLandsAtAdjustedIndex ==
  [][ DropApplied =>
        LET table == OwningTable(body, dragData)
            i == PosIn(body[table], dragData) - 1
        IN /\ dragTarget = table
           /\ dragInsert \in 0 .. Len(body[table])
           /\ OwningTable(body', dragData) = table
           /\ Len(body'[table]) = Len(body[table])
           /\ PosIn(body'[table], dragData) - 1 =
                IF i < dragInsert THEN dragInsert - 1 ELSE dragInsert
           /\ \A t \in Table \ {table} : body'[t] = body[t]
    ]_vars

\* C9 witness: the first location of a table of three has been dropped
\* after the second one.
C9_Witness ==
  /\ lastDrop.applied
  /\ lastDrop.i = 0
  /\ lastDrop.insert = 2
  /\ Len(body[lastDrop.table]) = 3
  /\ body[lastDrop.table][2] = lastDrop.loc

\* ------------------------------------------------- notifications (C11)
\* Number of occurrences of e in the sequence s.
Count(s, e) == Cardinality({ k \in 1 .. Len(s) : s[k] = e })

LayoutCalls(s) ==
  Count(s, "panel.MarkForLayoutRecursively") + Count(s, "dock.MarkForLayoutRecursively")

MutatingOps == { "AddPrereq", "AddPrereqList", "DeletePrereq", "SwitchType" }
FailedOps == { "AddPrereqFailed", "SwitchTypeFailed" }

\* C11 as stated: every completed add, nested add, delete and type switch
\* emits exactly one modified notification, after the change and the
\* relabeling, and exactly one layout request; a callback that changes
\* nothing emits none.
C11_OneModifiedOneLayout ==
  /\ last.op \in MutatingOps =>
       /\ Count(last.events, "MarkModified") = 1
       /\ last.events[Len(last.events)] = "MarkModified"
       /\ LayoutCalls(last.events) = 1
  /\ last.op \in FailedOps => last.events = << >>

\* C11 amended: every completed add, nested add, delete and type switch
\* emits exactly one modified notification, as its last call, and marks the
\* dock container for layout exactly once just before it; add, nested add
\* and delete also mark the panel for layout once, at the end of
\* adjustAndOrForList (two layout requests in all), a type switch does not
\* (one layout request).  A callback that changes nothing emits nothing.
C11_OneModifiedLast ==
  /\ last.op \in MutatingOps =>
       /\ Count(last.events, "MarkModified") = 1
       /\ last.events[Len(last.events)] = "MarkModified"
       /\ Count(last.events, "dock.MarkForLayoutRecursively") = 1
       /\ last.events[Len(last.events) - 1] = "dock.MarkForLayoutRecursively"
       /\ Count(last.events, "panel.MarkForLayoutRecursively") =
            IF last.op = "SwitchType" THEN 0 ELSE 1
       /\ \A k \in 1 .. Len(last.events) :
            last.events[k] \in {"mutate", "adjustAndOr"} => k < Len(last.events) - 1
  /\ last.op \in FailedOps => last.events = << >>

\* C11 witness: a nested list has been added with two layout requests and
\* the modified notification at the end.
C11_Witness ==
  /\ last.op = "AddPrereqList"
  /\ LayoutCalls(last.events) = 2
  /\ last.events[Len(last.events)] = "MarkModified"
  /\ heap[last.data].Prereqs[1] = last.created

\* ----------------------------------------------------- relabeling (C13, C14)
\* The set of the elements of the sequence s.
Range(s) == { s[k] : k \in 1 .. Len(s) }

\* C13: selecting the All flag of a list gives every child after the first
\* the connective of the selected value, leaves the first child without
\* connective and leaves the label of every other prerequisite as it was.
C13_SelectAllRelabels ==
  [][ last'.op = "SelectAll" =>
        LET list == last'.data
            kids == heap'[list].Prereqs
        IN /\ kids = heap[list].Prereqs
           /\ \A k \in 2 .. Len(kids) :
                andOrMap'[kids[k]] = IF heap'[list].All THEN "and" ELSE "or"
           /\ Len(kids) >= 1 => andOrMap'[kids[1]] = ""
           /\ DOMAIN andOrMap' = DOMAIN andOrMap
           /\ \A n \in DOMAIN andOrMap \ Range(kids) : andOrMap'[n] = andOrMap[n]
    ]_vars

\* C13 witness: the root, with a leaf and a nested list that has a child,
\* has been switched to "at least one of": the nested list is labelled "or".
C13_Witness ==
  /\ last.op = "SelectAll"
  /\ last.data = root
  /\ ~heap[root].All
  /\ Len(heap[root].Prereqs) = 2
  /\ andOrMap[heap[root].Prereqs[2]] = "or"
  /\ Len(heap[heap[root].Prereqs[2]].Prereqs) = 1

\* The label texts a label can hold.
Labels == { "", "and", "or" }

\* andOrMap with the labels of the children of list set as f says.
WithLabels(list, f) ==
  [n \in DOMAIN andOrMap |-> IF n \in DOMAIN f THEN f[n] ELSE andOrMap[n]]

\* C14: adjustAndOrForList is idempotent: whatever the texts of the labels
\* of a list's children, a second call right after a first one changes no
\* label.
C14_AdjustIdempotent ==
  \A list \in DisplayedLists :
    \A f \in [Range(heap[list].Prereqs) \cap DOMAIN andOrMap -> Labels] :
      LET once == adjustAndOrForList(heap, WithLabels(list, f), list)
      IN adjustAndOrForList(heap, once, list) = once

\* C14 witness: a list of three children whose labels, were they all "and",
\* would be changed by a first call and left alone by a second one.
C14_Witness ==
  \E list \in DisplayedLists :
    /\ Len(heap[list].Prereqs) = 3
    /\ ~heap[list].All
    /\ LET m == WithLabels(list, [n \in Range(heap[list].Prereqs) |-> "and"])
           once == adjustAndOrForList(heap, m, list)
       IN /\ once # m
          /\ once[heap[list].Prereqs[1]] = ""
          /\ once[heap[list].Prereqs[3]] = "or"
          /\ adjustAndOrForList(heap, once, list) = once

\* ------------------------------------------------------ round trip (C15)
AddOps == { "AddPrereq", "AddPrereqList" }

\* C15: a delete of the prerequisite that the previous callback added
\* leaves the list with the Prereqs it had before the add.
C15_AddThenDeleteRestores ==
  [][ (last.op \in AddOps /\ last'.op = "DeletePrereq" /\ last'.data = last.created) =>
        /\ heap'[last.data].Prereqs = last.before
        /\ Len(heap'[last.data].Prereqs) = Len(heap[last.data].Prereqs) - 1
    ]_vars

\* C15 witness: the prerequisite added last, in front of two others, has
\* been deleted from index 0 and the two others are left in their order.
C15_Witness ==
  /\ last.op = "DeletePrereq"
  /\ last.data = numNodes
  /\ last.index = 0
  /\ Len(last.before) = 3
  /\ heap[heap[last.data].Parent].Prereqs = Tail(last.before)

\* ------------------------------------------------- type used last (C16)
\* C16: a type switch to item makes item the type used last, so that the
\* next add creates a prerequisite of that type; the two adds and the
\* delete leave the type used last as it was.
C16_TypeUsedLast ==
  [][ /\ last'.op = "SwitchType" => lastPrereqTypeUsed' = last'.item
      /\ last'.op \in { "AddPrereq", "AddPrereqList", "DeletePrereq" } =>
           lastPrereqTypeUsed' = lastPrereqTypeUsed
      /\ (last.op = "SwitchType" /\ last'.op = "AddPrereq") =>
           heap'[last'.created].Type = last.item
    ]_vars

\* C16 witness: an add right after a switch to the attribute type has
\* created an attribute prerequisite.
C16_Witness ==
  /\ last.op = "AddPrereq"
  /\ lastPrereqTypeUsed = AttributePrereqType
  /\ heap[last.created].Type = AttributePrereqType
  /\ \E n \in Allocated \ {last.created} :
       heap[n].Type = AttributePrereqType /\ heap[n].Parent # NIL

\* --------------------------------------------------- nested list (C17)
\* C17: the nested-list button of a list puts a new list without children
\* at position 0 of the list, with the list as its parent, and moves every
\* previous child one position further.
C17_AddListAtFront ==
  [][ last'.op = "AddPrereqList" =>
        LET list == last'.data
            created == last'.created
            old == heap[list].Prereqs
            new == heap'[list].Prereqs
        IN /\ created \notin Allocated
           /\ heap'[created].Type = ListPrereqType
           /\ heap'[created].Prereqs = << >>
           /\ heap'[created].Parent = list
           /\ Len(new) = Len(old) + 1
           /\ new[1] = created
           /\ \A k \in 1 .. Len(old) : new[k + 1] = old[k]
    ]_vars

\* C17 witness: a nested list has been added in front of two children.
C17_Witness ==
  /\ last.op = "AddPrereqList"
  /\ Len(heap[last.data].Prereqs) = 3
  /\ heap[last.data].Prereqs[1] = last.created
  /\ heap[last.created].Prereqs = << >>

\* --------------------------------------------------------- frame (C18)
\* The list whose Prereqs the callback recorded in r changes (NIL: none),
\* h being the objects before the callback.
ChangedList(h, r) ==
  IF r.op \in AddOps THEN r.data
  ELSE IF r.op \in { "DeletePrereq", "SwitchType" } THEN h[r.data].Parent
  ELSE NIL

\* C18: a callback changes the Prereqs of at most one list, the target list
\* of an add and the parent of the operand of a delete or type switch; the
\* children it neither adds nor removes keep their relative order and the
\* Prereqs of every other list are left as they were.
C18_OneListChanges ==
  [][ LET target == ChangedList(heap, last') IN
      /\ \A list \in Node \ {target} : heap'[list].Prereqs = heap[list].Prereqs
      /\ target # NIL =>
           LET old == heap[target].Prereqs
               new == heap'[target].Prereqs
           IN \A a, b \in Range(old) \cap Range(new) :
                PosIn(old, a) < PosIn(old, b) => PosIn(new, a) < PosIn(new, b)
    ]_vars

\* C18 witness: the child of a nested list has been deleted while the root
\* keeps its two children.
C18_Witness ==
  /\ last.op = "DeletePrereq"
  /\ heap[last.data].Parent # root
  /\ heap[heap[last.data].Parent].Prereqs = << >>
  /\ Len(heap[root].Prereqs) = 2

\* ------------------------------------------------------ undo edits (C19)
\* C19 as stated: every completed add, nested add, delete and type switch
\* of the prerequisite panel takes a snapshot before the change and one
\* after it and posts exactly one undo edit.
C19_EveryOpPostsUndo ==
  last.op \in MutatingOps =>
    /\ Count(last.events, "prepareUndo") = 1
    /\ Count(last.events, "finishAndPostUndo") = 1
    /\ PosIn(last.events, "prepareUndo") < PosIn(last.events, "mutate")
    /\ PosIn(last.events, "mutate") < PosIn(last.events, "finishAndPostUndo")

\* C19 amended: the completed add, nested add, delete and type switch of
\* the prerequisite panel take no snapshot and post no undo edit: they
\* change the tree and call MarkModified once, and the undo manager stays
\* as it was.  (The drop of a hit location, reset and load of the body
\* settings dockable do take a clone of the body before and after the
\* change and post exactly one edit: PostsOneEdit below.)
C19_PrereqOpsPostNoUndo ==
  last.op \in MutatingOps =>
    /\ Count(last.events, "prepareUndo") = 0
    /\ Count(last.events, "finishAndPostUndo") = 0
    /\ Count(last.events, "mutate") = 1
    /\ Count(last.events, "MarkModified") = 1
    /\ undoStack = << >>
    /\ undoIndex = 0

\* C19 witness: a type switch has replaced a prerequisite and notified the
\* change while the undo manager holds no edit.
C19_Witness ==
  /\ last.op = "SwitchType"
  /\ Count(last.events, "mutate") = 1
  /\ heap[last.created].Type = last.item
  /\ heap[last.data].Type # last.item
  /\ undoStack = << >>

\* ------------------------------------------------------ undo, redo (C20)
\* The bodies the k-th edit of the undo manager holds.
Snapshots(h, stack, k) ==
  [BeforeData |-> h[stack[k].BeforeData], AfterData |-> h[stack[k].AfterData]]

\* The addresses the edits of the undo manager hold.
SnapshotRefs(stack) ==
  { stack[k].BeforeData : k \in 1 .. Len(stack) } \cup
  { stack[k].AfterData : k \in 1 .. Len(stack) }

\* A step of dataDragDrop, reset or load that posts an edit.
PostStep ==
  /\ lastDrop'.op \in { "dataDragDrop", "reset", "load" }
  /\ undoIndex' = undoIndex + 1

UndoStep == lastDrop'.op = "undo" /\ undoIndex' = undoIndex - 1

RedoStep == lastDrop'.op = "redo" /\ undoIndex' = undoIndex + 1

\* A posting step adds exactly one edit, after the edits that are applied;
\* the edit holds the body as it was before the step and as it is after it,
\* in two objects of their own.
PostsOneEdit ==
  PostStep =>
    /\ Len(undoStack') = undoIndex + 1
    /\ Snapshots(bodyHeap', undoStack', undoIndex') =
         [BeforeData |-> body, AfterData |-> body']
    /\ undoStack'[undoIndex'].BeforeData # undoStack'[undoIndex'].AfterData
    /\ \A k \in 1 .. undoIndex :
         Snapshots(bodyHeap', undoStack', k) = Snapshots(bodyHeap, undoStack, k)

\* C20: an undo makes the body equal to the BeforeData of the edit and a
\* redo makes it equal to its AfterData, as often as they are repeated:
\* neither they nor a later change of the body alter the bodies an edit
\* holds, the edited body being an object of its own after every step.
C20_UndoRedoApplySnapshots ==
  [][ /\ UndoStep => body' = bodyHeap[undoStack[undoIndex].BeforeData]
      /\ RedoStep => body' = bodyHeap[undoStack[undoIndex + 1].AfterData]
      /\ (UndoStep \/ RedoStep) =>
           /\ Len(undoStack') = Len(undoStack)
           /\ \A k \in 1 .. Len(undoStack) :
                Snapshots(bodyHeap', undoStack', k) = Snapshots(bodyHeap, undoStack, k)
      /\ PostsOneEdit
      /\ bodyRef' \notin SnapshotRefs(undoStack')
    ]_vars

\* C20 witness: of two edits the second has been undone: the body is the
\* one the second edit holds as BeforeData and the first as AfterData, and
\* differs from the two other bodies they hold.
C20_Witness ==
  /\ lastDrop.op = "undo"
  /\ Len(undoStack) = 2
  /\ undoIndex = 1
  /\ body = bodyHeap[undoStack[2].BeforeData]
  /\ body = bodyHeap[undoStack[1].AfterData]
  /\ body # bodyHeap[undoStack[2].AfterData]
  /\ body # bodyHeap[undoStack[1].BeforeData]
  /\ bodyRef \notin SnapshotRefs(undoStack)

\* ------------------------------------------------------ stale labels (C21)
\* C21: every key of andOrMap is a prerequisite that can be reached from
\* the root: no delete and no type switch leaves the label of a
\* prerequisite that is no longer in the tree.
C21_KeysReachable == DOMAIN andOrMap \subseteq Displayed(heap)

\* ------------------------------------------------- drop permutation (C22)
\* C22: a drop of the location at index i of its table with the insertion
\* index k in 0 .. len leaves a table of the same length with the same
\* locations, the dragged one at index k when i >= k and at index k - 1
\* when i < k, and the others in their former relative order; a drop at
\* k = i or k = i + 1 leaves the table as it was; the index deleted at and
\* the index inserted at are within the table.
C22_DropPermutes ==
  [][ DropApplied =>
        LET table == OwningTable(body, dragData)
            old == body[table]
            new == body'[table]
            i == PosIn(old, dragData) - 1
            k == dragInsert
            landing == IF i < k THEN k - 1 ELSE k
        IN /\ k \in 0 .. Len(old)
           /\ i \in 0 .. Len(old) - 1
           /\ landing \in 0 .. Len(old) - 1
           /\ Len(new) = Len(old)
           /\ Range(new) = Range(old)
           /\ new[landing + 1] = dragData
           /\ \A a, b \in Range(old) \ {dragData} :
                PosIn(old, a) < PosIn(old, b) => PosIn(new, a) < PosIn(new, b)
           /\ (k = i \/ k = i + 1) => new = old
    ]_vars

\* C22 witness: the last location of a table of three has been dropped in
\* front of the first one, and the two others follow in their order.
C22_Witness ==
  /\ lastDrop.op = "dataDragDrop"
  /\ lastDrop.applied
  /\ Len(body[lastDrop.table]) >= 3
  /\ lastDrop.i = Len(body[lastDrop.table]) - 1
  /\ lastDrop.insert = 0
  /\ body[lastDrop.table][1] = lastDrop.loc
  /\ body[lastDrop.table][2] < body[lastDrop.table][3]

\* ------------------------------------------------------- drag state (C23)
\* No drag-over is in effect.
DragIdle == ~inDragOver /\ dragInsert = -1 /\ dragTarget = NoTable

\* A step of dataDragDrop.
DropStep == dragData # NoData /\ dragData' = NoData

\* A step of dataDragExit, or of a dataDragOver that hits no child.
ExitStep == dragData # NoData /\ dragData' = dragData /\ ~inDragOver'

\* C23: from the fresh dockable on, whenever inDragOver is true the drag
\* target is set, has at least one child and dragInsert is between 0 and
\* the number of its children, so that drawOver never panics; every
\* dataDragExit and every dataDragDrop leaves the drag state idle; a drop
\* that finds inDragOver false changes no Locations and posts no edit.
C23_DragStateSound ==
  [][ /\ inDragOver' =>
           /\ dragTarget' \in Table
           /\ Len(body'[dragTarget']) >= 1
           /\ dragInsert' \in 0 .. Len(body'[dragTarget'])
      /\ lastDrop'.op # "drawOver panic"
      /\ (ExitStep \/ DropStep) => DragIdle'
      /\ (DropStep /\ ~inDragOver) =>
           /\ bodyHeap' = bodyHeap
           /\ bodyRef' = bodyRef
           /\ undoStack' = undoStack
           /\ undoIndex' = undoIndex
    ]_vars

\* C23 witness: on the fresh dockable, where dragInsert is still 0, a hit
\* location has been dropped without a drag-over: the drag state is idle,
\* the body is as opened and no edit has been posted.
C23_Witness ==
  /\ lastDrop.op = "dataDragDrop"
  /\ ~lastDrop.applied
  /\ lastDrop.loc \in Loc
  /\ lastDrop.insert = 0
  /\ DragIdle
  /\ body = OpenedBody
  /\ undoStack = << >>

\* ---------------------------------------------------------- closing (C24)
CloseOps == { "AttemptClose", "applyButton", "cancelButton" }

\* C24: the edited body is committed to the owner only by the Apply button
\* or by the answer OK to the dialog, and then once; the Discard button and
\* the answer Discard close without a commit, and neither button is
\* followed by the dialog; the answer Cancel leaves the dockable open and
\* the edited body as it is; the dialog is shown only when promptForSave is
\* true and the checksum of the edited body differs from the original one.
C24_CommitOnApplyOnly ==
  [][ LET ran == lastDrop' IN
      /\ applies' # applies =>
           /\ \/ ran.op = "applyButton"
              \/ ran.op = "AttemptClose" /\ ran.prompted /\ ran.response = ModalResponseOK
           /\ applies = 0
           /\ applies' = 1
           /\ ownerBody' = body
           /\ closed'
      /\ ownerBody' # ownerBody => applies' # applies
      /\ ran.op \in CloseOps =>
           /\ ran.op = "applyButton" => applies' = 1 /\ closed' /\ ~ran.prompted
           /\ ran.op = "cancelButton" => applies' = applies /\ closed' /\ ~ran.prompted
           /\ ran.prompted =>
                /\ promptForSave
                /\ body # OpenedBody
                /\ ran.response = ModalResponseOK => applies' = 1 /\ closed'
                /\ ran.response = ModalResponseDiscard => applies' = applies /\ closed'
                /\ ran.response = ModalResponseCancel =>
                     /\ applies' = applies
                     /\ ~closed'
                     /\ body' = body
                     /\ bodyRef' = bodyRef
                     /\ undoStack' = undoStack
           /\ (ran.op = "AttemptClose" /\ ~ran.prompted) => applies' = applies /\ closed'
      /\ closed => closed'
    ]_vars

\* C24 witness: the tab of a dockable with a changed body has been closed
\* and the dialog answered with OK: the body is committed, once.
C24_Witness ==
  /\ closed
  /\ lastDrop.op = "AttemptClose"
  /\ lastDrop.prompted
  /\ lastDrop.response = ModalResponseOK
  /\ applies = 1
  /\ ownerBody = body
  /\ body # OpenedBody

\* ------------------------------------------------------------- load (C25)
\* The body model.NewBodyFromFile reads from the file that can be read.
LoadedBody == NewBodyFromFile(GoodFile).bodyType

\* C25: a load that fails leaves the edited body and the undo manager as
\* they are and does not call sync; a load that succeeds posts exactly one
\* edit, whose BeforeData is the body before the load and whose AfterData
\* is the body read, and makes the body read the edited body.
C25_LoadFailsCleanly ==
  [][ /\ (lastDrop'.op = "load" /\ ~lastDrop'.applied) =>
           /\ bodyHeap' = bodyHeap
           /\ bodyRef' = bodyRef
           /\ undoStack' = undoStack
           /\ undoIndex' = undoIndex
           /\ syncs' = syncs
      /\ (lastDrop'.op = "load" /\ lastDrop'.applied) =>
           /\ undoIndex' = undoIndex + 1
           /\ Len(undoStack') = undoIndex + 1
           /\ Snapshots(bodyHeap', undoStack', undoIndex') =
                [BeforeData |-> body, AfterData |-> LoadedBody]
           /\ \A k \in 1 .. undoIndex :
                Snapshots(bodyHeap', undoStack', k) = Snapshots(bodyHeap, undoStack, k)
           /\ body' = LoadedBody
           /\ syncs' # syncs
    ]_vars

\* C25 witness: a body has been loaded over one changed by a drop: the edit
\* posted second holds the changed body and the body read.
C25_Witness ==
  /\ lastDrop.op = "load"
  /\ lastDrop.applied
  /\ undoIndex = 2
  /\ Len(undoStack) = 2
  /\ body = LoadedBody
  /\ bodyHeap[undoStack[2].AfterData] = LoadedBody
  /\ bodyHeap[undoStack[2].BeforeData] \notin { LoadedBody, OpenedBody, ResetBody }
====
